---------------------------- MODULE Spec2Model ----------------------------
(***************************************************************************)
(* HyperparamPipeline (ticket_upgrade_prediction/hyperparam_pipeline.py):  *)
(* grid / random hyperparameter search with k-fold cross-validation and    *)
(* per-fold scaling.                                                       *)
(*                                                                         *)
(* Spec      the search driver: search_for_params, the two search loops,   *)
(*           append_params_and_calculate_scores and get_best_params.  The  *)
(*           cross-validated evaluation of one configuration is an opaque  *)
(*           outcome here (an exception, or a Metrics bundle).             *)
(* ScaleSpec one cross-validated evaluation, fold by fold:                 *)
(*           create_splits_and_calc_scores, create_preds_for_hypers and    *)
(*           get_scaled_train_and_test_sets.                               *)
(***************************************************************************)
EXTENDS Integers, Sequences, FiniteSets, TLC

(***************************************************************************)
(* Bounds of the model.                                                    *)
(***************************************************************************)
\* largest n_iters passed to a random search
MaxIters == 2
\* a search loop is entered only while the params log holds at most this many
MaxBase == 1
\* rows of the feature table
NumRows == 3
\* the n_splits argument of the search call
n_splits == 2

(***************************************************************************)
(* Values.                                                                 *)
(***************************************************************************)
\* hyperparameter names; ParameterGrid iterates them sorted
Names == {"a", "b"}
SortedNames == <<"a", "b">>

Vals == {1, 2, 3, 4}

\* an entry of param_space: a list of candidates (type(v) == list) or a scalar
ListEntry(s) == [list |-> TRUE, v |-> s]
ScalarEntry(x) == [list |-> FALSE, v |-> x]

\* entries of the two names: candidate lists (one with a repeated
\* candidate) and fixed scalars
EntriesA == {ListEntry(<<1, 2>>), ListEntry(<<1, 1>>), ListEntry(<<2>>), ScalarEntry(1)}
EntriesB == {ListEntry(<<3, 4>>), ListEntry(<<3>>), ScalarEntry(3)}

\* the param_space arguments of the constructor
ParamSpaces == {[a |-> ea, b |-> eb] : ea \in EntriesA, eb \in EntriesB}

\* the metric the pipeline optimizes (self.metric) and the names a bundle knows
metric == "accuracy"
MetricNames == {"accuracy", "f1"}
Scores == {0, 1}

\* Metrics bundles an evaluation may return; the two metrics rank them in
\* opposite orders
Bundles == {b \in [MetricNames -> Scores] : b["accuracy"] + b["f1"] = 1}
get_metric_from_string(bundle, name) == bundle[name]

\* what create_splits_and_calc_scores may do: raise (<<>>) or return a bundle
EvalOutcomes == {<<>>} \cup {<<b>> : b \in Bundles}

\* searching_algo arguments, and **kwargs with or without n_iters
Algos == {"random", "grid", "bogus"}
NoKwargs == [k \in {} |-> 0]
Kwargs == {NoKwargs} \cup {[n_iters |-> n] : n \in 0..MaxIters}

(***************************************************************************)
(* State of the search driver.                                             *)
(***************************************************************************)
VARIABLES
    param_space,   \* self.param_space
    params,        \* self.params
    scores,        \* self.scores
    pc,            \* "idle", or the search loop in progress: "grid", "random"
    call,          \* frame of the current / latest search_for_params call
    ret,           \* outcome of the latest completed operation
    trials         \* history: <<configuration, bundle>> of every evaluation that returned

(***************************************************************************)
(* State of one cross-validated evaluation.                                *)
(***************************************************************************)
VARIABLES
    X,             \* self.X: rows of cells, one cell per column
    cols_to_scale, \* self.cols_to_scale
    stratify,      \* self.stratify
    model,         \* self.model, the model-type tag
    global_X,      \* whether the module-level name X is bound (as under __main__)
    epc,           \* position inside create_splits_and_calc_scores
    folds_left,    \* folds kf.split has still to yield
    fold_scores,   \* bundles of the folds done
    fold,          \* locals of the fold at hand: indices, scaler, slices
    cv_ret         \* outcome of the latest create_splits_and_calc_scores

search_vars == <<param_space, params, scores, pc, call, ret, trials>>
scale_vars == <<X, cols_to_scale, stratify, model, global_X, epc, folds_left,
                fold_scores, fold, cv_ret>>
vars == <<search_vars, scale_vars>>

\* a call frame: the arguments, the loop state (iterations left, grid
\* configurations still to visit) and the logs as they were on entry
Frame(algo, kwargs, left, todo, ps, ss) ==
    [algo |-> algo, kwargs |-> kwargs, left |-> left, todo |-> todo,
     base_params |-> ps, base_scores |-> ss]
NoCall == Frame("none", NoKwargs, 0, <<>>, <<>>, <<>>)
Ret(op, exc, val) == [op |-> op, exc |-> exc, val |-> val]

SearchInit ==
    /\ param_space \in ParamSpaces
    /\ params = <<>>
    /\ scores = <<>>
    /\ pc = "idle"
    /\ call = NoCall
    /\ ret = Ret("none", "none", <<>>)
    /\ trials = <<>>

(***************************************************************************)
(* Pure parts.                                                             *)
(***************************************************************************)
\* sklearn ParameterGrid: rejects a value that is not a sequence
ParameterGridAccepts(space) == \A k \in DOMAIN space : space[k].list

\* sklearn ParameterGrid iteration: the product of the candidate lists over
\* the sorted keys, the last key varying fastest
RECURSIVE GridOver(_, _)
GridOver(space, keys) ==
    IF keys = <<>> THEN << <<>> >>
    ELSE LET k == Head(keys)
             rest == GridOver(space, Tail(keys))
             n == Len(rest)
         IN [p \in 1..(Len(space[k].v) * n) |->
                (k :> space[k].v[((p - 1) \div n) + 1]) @@ rest[((p - 1) % n) + 1]]

ParameterGrid(space) == GridOver(space, SortedNames)

\* get_random_params keeping only the entries it draws: {k: choice(v) for list v}
get_random_params_drawn_only(space) ==
    LET drawn == {k \in DOMAIN space : space[k].list}
    IN {cfg \in [drawn -> Vals] :
           \A k \in drawn : \E i \in 1..Len(space[k].v) : cfg[k] = space[k].v[i]}

\* get_random_params: the configurations one call may return
get_random_params(space) ==
    {cfg \in [DOMAIN space -> Vals] :
        \A k \in DOMAIN space :
            IF space[k].list
            THEN \E i \in 1..Len(space[k].v) : cfg[k] = space[k].v[i]
            ELSE cfg[k] = space[k].v}

\* search_for_params whose else branch runs the grid search
DispatchElseGrid(algo, kwargs) ==
    IF algo = "random"
    THEN IF "n_iters" \in DOMAIN kwargs THEN "random" ELSE "KeyError"
    ELSE "grid"

\* search_for_params testing for n_iters in the condition of the random branch
DispatchRandomNeedsIters(algo, kwargs) ==
    IF algo = "random" /\ "n_iters" \in DOMAIN kwargs THEN "random"
    ELSE IF algo = "grid" THEN "grid" ELSE "ValueError"

\* search_for_params: which branch a call takes
Dispatch(algo, kwargs) ==
    IF algo = "random"
    THEN IF "n_iters" \in DOMAIN kwargs THEN "random" ELSE "KeyError"
    ELSE IF algo = "grid" THEN "grid" ELSE "ValueError"

\* self.params.append / self.scores.append
AppendParams(ps, cfg) == Append(ps, cfg)
\* self.scores = [score]
AppendScoreAssigns(ss, bundle) == <<bundle>>
AppendScore(ss, bundle) == Append(ss, bundle)

\* get_best_params, line 62-65
metric_list(ss) == [i \in 1..Len(ss) |-> get_metric_from_string(ss[i], metric)]

\* np.max
np_max(l) == CHOOSE x \in {l[i] : i \in 1..Len(l)} : \A i \in 1..Len(l) : l[i] <= x

\* np.argmax: first position of the maximum, 0 (raise ValueError) on an empty list
np_argmax(l) ==
    IF l = <<>> THEN 0
    ELSE CHOOSE i \in 1..Len(l) :
            /\ \A j \in 1..Len(l) : l[j] <= l[i]
            /\ \A j \in 1..(i - 1) : l[j] < l[i]

\* get_best_params returning None when nothing is recorded
BestParamsOrNone(ps, ss) ==
    LET ml == metric_list(ss)
    IN IF ss = <<>> THEN Ret("get_best_params", "none", <<>>)
       ELSE Ret("get_best_params", "none", <<ps[np_argmax(ml)], np_max(ml)>>)

\* get_best_params: the value returned, or the exception raised
BestParams(ps, ss) ==
    LET ml == metric_list(ss)
        at == np_argmax(ml)
    IN IF at = 0 THEN Ret("get_best_params", "ValueError", <<>>)
       ELSE Ret("get_best_params", "none", <<ps[at], np_max(ml)>>)

(***************************************************************************)
(* Operations.                                                             *)
(***************************************************************************)
\* search_for_params up to the first loop iteration
search_for_params(algo, kwargs) ==
    /\ pc = "idle"
    /\ UNCHANGED <<param_space, params, scores, trials, scale_vars>>
    /\ LET d == Dispatch(algo, kwargs)
           raised(exc) ==
               /\ call' = Frame(algo, kwargs, 0, <<>>, params, scores)
               /\ ret' = Ret("search_for_params", exc, <<>>)
               /\ pc' = "idle"
           loop(kind, n, todo) ==
               /\ Len(params) <= MaxBase
               /\ call' = Frame(algo, kwargs, n, todo, params, scores)
               /\ IF n = 0
                  THEN /\ pc' = "idle"
                       /\ ret' = Ret("search_for_params", "none", <<>>)
                  ELSE /\ pc' = kind
                       /\ ret' = Ret("search_for_params", "running", <<>>)
       IN CASE d = "random" -> loop("random", kwargs.n_iters, <<>>)
            [] d = "grid" ->
                 IF ParameterGridAccepts(param_space)
                 THEN LET g == ParameterGrid(param_space)
                      IN loop("grid", Len(g), g)
                 ELSE raised("TypeError")
            [] OTHER -> raised(d)

\* append_params_and_calculate_scores: the evaluation raises (outcome <<>>)
\* or returns a bundle (outcome <<bundle>>)
append_params_and_calculate_scores(cfg, outcome) ==
    /\ params' = AppendParams(params, cfg)
    /\ IF outcome = <<>>
       THEN UNCHANGED <<scores, trials>>
       ELSE /\ scores' = AppendScore(scores, outcome[1])
            /\ trials' = Append(trials, <<cfg, outcome[1]>>)

\* the end of one loop iteration: the exception leaves the call, the last
\* iteration returns, any other goes on
LoopEnd(outcome, frame) ==
    /\ call' = frame
    /\ IF outcome = <<>>
       THEN /\ pc' = "idle"
            /\ ret' = Ret("search_for_params", "EvalError", <<>>)
       ELSE IF frame.left = 0
            THEN /\ pc' = "idle"
                 /\ ret' = Ret("search_for_params", "none", <<>>)
            ELSE UNCHANGED <<pc, ret>>

\* one iteration of the loop of optimize_hypers_using_grid_search
optimize_hypers_using_grid_search ==
    /\ pc = "grid"
    /\ UNCHANGED <<param_space, scale_vars>>
    /\ \E outcome \in EvalOutcomes :
          /\ append_params_and_calculate_scores(Head(call.todo), outcome)
          /\ LoopEnd(outcome, [call EXCEPT !.todo = Tail(@), !.left = @ - 1])

\* one iteration of the loop of optimize_hypers_using_random_search
optimize_hypers_using_random_search ==
    /\ pc = "random"
    /\ UNCHANGED <<param_space, scale_vars>>
    /\ \E iteration_params \in get_random_params(param_space), outcome \in EvalOutcomes :
          /\ append_params_and_calculate_scores(iteration_params, outcome)
          /\ LoopEnd(outcome, [call EXCEPT !.left = @ - 1])

get_best_params ==
    /\ pc = "idle"
    /\ ret' = BestParams(params, scores)
    /\ UNCHANGED <<param_space, params, scores, pc, call, trials, scale_vars>>

Next ==
    \/ \E kwargs \in Kwargs : search_for_params("random", kwargs)
    \/ \E algo \in Algos \ {"random"} : search_for_params(algo, NoKwargs)
    \/ optimize_hypers_using_grid_search
    \/ optimize_hypers_using_random_search
    \/ get_best_params

(***************************************************************************)
(* One cross-validated evaluation: values.                                 *)
(***************************************************************************)
\* list(X.columns)
columns == <<"col_0", "col_1">>
Cells == {0, 1}
\* feature tables: col_0 varies by row, col_1 holds one value in every row
Tables == {[r \in 1..NumRows |-> <<a[r], b>>] : a \in [1..NumRows -> Cells], b \in Cells}
ColsToScale == {{}, {"col_0"}, {"col_0", "col_1"}}
\* model-type tags: one that determine_model knows, one it does not
ModelTags == {"knn", "svm"}
\* what one fold's model.fit and Evaluator may do: raise (<<>>) or give a bundle
FoldOutcomes == {<<>>, <<0>>, <<1>>}

\* a cell as the real number num / sqrt(den2)
Real(num, den2) == [num |-> num, den2 |-> den2]
Raw(x) == Real(x, 1)

NoFold == [train_index |-> <<>>, test_index |-> <<>>, scaler |-> <<>>,
           X_train |-> <<>>, X_test |-> <<>>]
CvRet(exc, val) == [exc |-> exc, val |-> val]

ScaleIdle ==
    /\ X = [r \in 1..NumRows |-> [c \in 1..Len(columns) |-> 0]]
    /\ cols_to_scale = {}
    /\ stratify = FALSE
    /\ model = "knn"
    /\ global_X = FALSE
    /\ epc = "idle"
    /\ folds_left = <<>>
    /\ fold_scores = <<>>
    /\ fold = NoFold
    /\ cv_ret = CvRet("none", <<>>)

SearchIdle ==
    /\ param_space = [a |-> ScalarEntry(1), b |-> ScalarEntry(3)]
    /\ params = <<>>
    /\ scores = <<>>
    /\ pc = "idle"
    /\ call = NoCall
    /\ ret = Ret("none", "none", <<>>)
    /\ trials = <<>>

\* the pipeline as constructed, seen by the search driver
Init == SearchInit /\ ScaleIdle

\* the pipeline as constructed, seen by one evaluation
ScaleInit ==
    /\ SearchIdle
    /\ X \in Tables
    /\ cols_to_scale \in ColsToScale
    /\ stratify \in BOOLEAN
    /\ model \in ModelTags
    /\ global_X \in BOOLEAN
    /\ epc = "idle"
    /\ folds_left = <<>>
    /\ fold_scores = <<>>
    /\ fold = NoFold
    /\ cv_ret = CvRet("none", <<>>)

(***************************************************************************)
(* One cross-validated evaluation: pure parts.                             *)
(***************************************************************************)
\* the members of a set of row numbers, ascending
RECURSIVE Ascending(_)
Ascending(S) ==
    IF S = {} THEN <<>>
    ELSE LET m == CHOOSE x \in S : \A y \in S : x <= y
         IN <<m>> \o Ascending(S \ {m})

Range(sq) == {sq[i] : i \in 1..Len(sq)}

\* KFold(k).split over n rows: consecutive test blocks, the first n % k one longer
KFoldStart(n, k, i) == (i - 1) * (n \div k) + (IF i - 1 < n % k THEN i - 1 ELSE n % k)
KFold(n, k) ==
    [i \in 1..k |->
        LET test == {r \in 1..n : KFoldStart(n, k, i) < r /\ r <= KFoldStart(n, k, i + 1)}
        IN <<Ascending((1..n) \ test), Ascending(test)>>]

\* StratifiedKFold(k).split: the test sets partition the rows, each is not
\* empty; which rows share a fold depends on the labels
StratifiedKFold(n, k) ==
    {[i \in 1..k |-> <<Ascending({r \in 1..n : f[r] # i}), Ascending({r \in 1..n : f[r] = i})>>] :
        f \in {g \in [1..n -> 1..k] : \A i \in 1..k : \E r \in 1..n : g[r] = i}}

\* kf.split(self.X, self.y): the sequences of folds it may yield
Splits(strat, n, k) == IF strat THEN StratifiedKFold(n, k) ELSE {KFold(n, k)}

\* determine_model: whether the tag is one of xgb, lr, knn, cat, lgb
determine_model(tag) == tag \in {"xgb", "lr", "knn", "cat", "lgb"}

\* self.X.iloc[index]
iloc(table, index) == [i \in 1..Len(index) |-> table[index[i]]]

\* map_cols_to_scale_to_boolean, over the columns of the module-level X
map_cols_to_scale_to_boolean(cols) == [c \in 1..Len(columns) |-> columns[c] \in cols]

RECURSIVE SumSeq(_)
SumSeq(sq) == IF sq = <<>> THEN 0 ELSE Head(sq) + SumSeq(Tail(sq))

\* StandardScaler.fit: per masked column the number of rows, the sum and the
\* sum of squares, which give mean_ = s / n and var_ = (n * q - s * s) / n^2
fit(rows, mask) ==
    [c \in {c \in 1..Len(columns) : mask[c]} |->
        [n |-> Len(rows),
         s |-> SumSeq([i \in 1..Len(rows) |-> rows[i][c]]),
         q |-> SumSeq([i \in 1..Len(rows) |-> rows[i][c] * rows[i][c]])]]

\* StandardScaler.transform of one cell: (x - mean_) / scale_, where scale_
\* is sqrt(var_), and 1 when var_ is 0
scale_cell(x, st) ==
    LET v == st.n * st.q - st.s * st.s
    IN Real(st.n * x - st.s, IF v = 0 THEN st.n * st.n ELSE v)

\* X_slice.iloc[:, mask] = scaler.transform(X_slice.iloc[:, mask])
transform(stats, rows, mask) ==
    [i \in 1..Len(rows) |->
        [c \in 1..Len(columns) |->
            IF mask[c] THEN scale_cell(rows[i][c], stats[c]) ELSE Raw(rows[i][c])]]

RawSlice(rows) == [i \in 1..Len(rows) |-> [c \in 1..Len(columns) |-> Raw(rows[i][c])]]

\* the rows scaler.fit_transform is given: the training slice
FitInputAll(table, train_index, test_index) == table
FitInput(table, train_index, test_index) == iloc(table, train_index)

\* Metrics.from_multiple_metrics: the mean over the folds, as <<sum, count>>
from_multiple_metrics(bundles) == <<SumSeq(bundles), Len(bundles)>>

(***************************************************************************)
(* One cross-validated evaluation: operations.                             *)
(***************************************************************************)
\* an exception leaves create_splits_and_calc_scores; the fold's locals go
Raise(exc) ==
    /\ epc' = "idle"
    /\ cv_ret' = CvRet(exc, <<>>)
    /\ fold' = NoFold

\* create_splits_and_calc_scores up to the first fold
create_splits_and_calc_scores ==
    /\ epc = "idle"
    /\ \E folds \in Splits(stratify, NumRows, n_splits) : folds_left' = folds
    /\ fold_scores' = <<>>
    /\ epc' = "split"
    /\ cv_ret' = CvRet("running", <<>>)
    /\ UNCHANGED <<X, cols_to_scale, stratify, model, global_X, fold, search_vars>>

\* create_preds_for_hypers up to the scaling: determine_model, then the new
\* scaler and the four slices of get_scaled_train_and_test_sets
create_preds_for_hypers ==
    /\ epc = "split"
    /\ IF determine_model(model)
       THEN /\ fold' = [train_index |-> folds_left[1][1],
                        test_index |-> folds_left[1][2],
                        scaler |-> <<>>,
                        X_train |-> RawSlice(iloc(X, folds_left[1][1])),
                        X_test |-> RawSlice(iloc(X, folds_left[1][2]))]
            /\ epc' = "scale"
            /\ UNCHANGED cv_ret
       ELSE Raise("ValueError")
    /\ UNCHANGED <<X, cols_to_scale, stratify, model, global_X, folds_left,
                   fold_scores, search_vars>>

\* get_scaled_train_and_test_sets, line 137-141: fit_transform on X_train
fit_transform_train ==
    /\ epc = "scale"
    /\ IF ~global_X
       THEN Raise("NameError")
       ELSE LET mask == map_cols_to_scale_to_boolean(cols_to_scale)
                stats == fit(FitInput(X, fold.train_index, fold.test_index), mask)
            IN IF \A c \in 1..Len(columns) : ~mask[c]
               THEN Raise("ValueError")
               ELSE /\ fold' = [fold EXCEPT
                                  !.scaler = <<stats>>,
                                  !.X_train = transform(stats, iloc(X, fold.train_index), mask)]
                    /\ epc' = "train_scaled"
                    /\ UNCHANGED cv_ret
    /\ UNCHANGED <<X, cols_to_scale, stratify, model, global_X, folds_left,
                   fold_scores, search_vars>>

\* get_scaled_train_and_test_sets, line 142-144: transform on X_test
transform_test ==
    /\ epc = "train_scaled"
    /\ IF fold.scaler = <<>>
       THEN Raise("NotFittedError")
       ELSE /\ fold' = [fold EXCEPT
                          !.X_test = transform(fold.scaler[1], iloc(X, fold.test_index),
                                               map_cols_to_scale_to_boolean(cols_to_scale))]
            /\ epc' = "test_scaled"
            /\ UNCHANGED cv_ret
    /\ UNCHANGED <<X, cols_to_scale, stratify, model, global_X, folds_left,
                   fold_scores, search_vars>>

\* create_preds_for_hypers, line 157-159: model.fit and the fold's metrics,
\* which end the fold; after the last fold, Metrics.from_multiple_metrics
fit_and_evaluate ==
    /\ epc = "test_scaled"
    /\ \E outcome \in FoldOutcomes :
          IF outcome = <<>>
          THEN Raise("FitError") /\ UNCHANGED <<folds_left, fold_scores>>
          ELSE /\ fold_scores' = Append(fold_scores, outcome[1])
               /\ folds_left' = Tail(folds_left)
               /\ fold' = NoFold
               /\ IF Tail(folds_left) = <<>>
                  THEN /\ epc' = "idle"
                       /\ cv_ret' = CvRet("none", from_multiple_metrics(fold_scores'))
                  ELSE /\ epc' = "split"
                       /\ UNCHANGED cv_ret
    /\ UNCHANGED <<X, cols_to_scale, stratify, model, global_X, search_vars>>

ScaleNext ==
    \/ create_splits_and_calc_scores
    \/ create_preds_for_hypers
    \/ fit_transform_train
    \/ transform_test
    \/ fit_and_evaluate

\* the search driver, and one evaluation
Spec == Init /\ [][Next]_vars
ScaleSpec == ScaleInit /\ [][ScaleNext]_vars

(***************************************************************************)
(* Vocabulary of the properties.                                           *)
(***************************************************************************)
\* the latest search_for_params call has ended (returned or raised)
SearchEnded == pc = "idle" /\ ret.op = "search_for_params"
SearchReturned == SearchEnded /\ ret.exc = "none"
\* the call was made on a pipeline whose logs were empty
OnFreshPipeline == call.base_params = <<>> /\ call.base_scores = <<>>

IsVariable(space, k) == space[k].list
Candidates(space, k) ==
    IF space[k].list THEN {space[k].v[i] : i \in 1..Len(space[k].v)} ELSE {space[k].v}

\* s1 * ... * sn over the variable entries
RECURSIVE ProductOfSizes(_, _)
ProductOfSizes(space, ks) ==
    IF ks = {} THEN 1
    ELSE LET k == CHOOSE x \in ks : TRUE
         IN (IF space[k].list THEN Len(space[k].v) ELSE 1) * ProductOfSizes(space, ks \ {k})

\* every combination of candidates, fixed entries held constant
Combinations(space) ==
    {cfg \in [DOMAIN space -> Vals] : \A k \in DOMAIN space : cfg[k] \in Candidates(space, k)}

\* a recorded configuration resolves the Parameter Space entry by entry
Resolves(cfg, space) ==
    /\ DOMAIN cfg = DOMAIN space
    /\ \A k \in DOMAIN space : cfg[k] \in Candidates(space, k)

\* the number of configurations the latest call was to evaluate
CallCount ==
    IF call.algo = "random" THEN call.kwargs.n_iters
    ELSE ProductOfSizes(param_space, DOMAIN param_space)

LogsPaired ==
    /\ Len(params) = Len(scores)
    /\ Len(trials) = Len(params)
    /\ \A i \in 1..Len(params) : params[i] = trials[i][1] /\ scores[i] = trials[i][2]

(***************************************************************************)
(* C1: a grid search on a fresh pipeline in which no evaluation fails ends *)
(* with exactly s1*...*sn Trial Records, every combination of candidates   *)
(* (fixed entries held constant) in exactly one record.                    *)
(* Violated: ParameterGrid raises on a fixed (scalar) entry, so the call   *)
(* ends with no record at all.                                             *)
(***************************************************************************)
GridIsExhaustive ==
    (/\ SearchEnded /\ call.algo = "grid" /\ OnFreshPipeline /\ ret.exc # "EvalError"
     /\ \E k \in DOMAIN param_space : IsVariable(param_space, k))
        => /\ Len(params) = ProductOfSizes(param_space, DOMAIN param_space)
           /\ Len(scores) = ProductOfSizes(param_space, DOMAIN param_space)
           /\ \A cfg \in Combinations(param_space) :
                 Cardinality({i \in 1..Len(params) : params[i] = cfg}) = 1

(***************************************************************************)
(* C2: with only fixed entries, a grid search produces exactly one Trial   *)
(* Record whose configuration equals the fixed entries.                    *)
(* Violated: ParameterGrid raises TypeError and nothing is recorded.       *)
(***************************************************************************)
GridOverFixedSpaceGivesOneRecord ==
    (/\ SearchEnded /\ call.algo = "grid" /\ OnFreshPipeline /\ ret.exc # "EvalError"
     /\ \A k \in DOMAIN param_space : ~IsVariable(param_space, k))
        => /\ Len(params) = 1
           /\ Len(scores) = 1
           /\ \A k \in DOMAIN param_space : params[1][k] = param_space[k].v

(***************************************************************************)
(* C3: a random search with n >= 1 iterations on a fresh pipeline in which *)
(* every evaluation succeeds ends with exactly n Trial Records; in each    *)
(* configuration a fixed entry keeps its value and a variable entry holds  *)
(* one member of its candidate list.                                       *)
(***************************************************************************)
RandomSearchRecordsN ==
    (SearchReturned /\ call.algo = "random" /\ OnFreshPipeline /\ call.kwargs.n_iters >= 1)
        => /\ Len(params) = call.kwargs.n_iters
           /\ Len(scores) = call.kwargs.n_iters
           /\ \A i \in 1..Len(params) : Resolves(params[i], param_space)

RandomSearchWitness ==
    /\ SearchReturned /\ call.algo = "random" /\ OnFreshPipeline
    /\ call.kwargs.n_iters = 2 /\ Len(scores) = 2
    /\ IsVariable(param_space, "a") /\ ~IsVariable(param_space, "b")
    /\ params[1] # params[2]

(***************************************************************************)
(* C4: whenever get_best_params returns, it returns the maximum of the     *)
(* target metric over the recorded trials and the configuration that was   *)
(* evaluated to produce it, the first such trial on a tie.                 *)
(* Violated: a failed evaluation leaves its configuration in params, and   *)
(* every later score is paired with the configuration one place earlier.   *)
(***************************************************************************)
BestIsFirstMaximalTrial ==
    (ret.op = "get_best_params" /\ ret.exc = "none")
        => \E i \in 1..Len(trials) :
              /\ \A j \in 1..Len(trials) : trials[j][2][metric] <= trials[i][2][metric]
              /\ \A j \in 1..(i - 1) : trials[j][2][metric] < trials[i][2][metric]
              /\ ret.val = <<trials[i][1], trials[i][2][metric]>>

(***************************************************************************)
(* C5: a configuration whose evaluation fails contributes no Trial Record: *)
(* between calls the params log and the scores log have the same length    *)
(* and hold exactly the trials that completed.                             *)
(* Violated: params.append precedes the evaluation.                        *)
(***************************************************************************)
FailedTrialLeavesNoRecord == pc = "idle" => LogsPaired

(***************************************************************************)
(* C6: get_best_params with no trial recorded raises (np.argmax of an      *)
(* empty list: ValueError) instead of returning a configuration.           *)
(***************************************************************************)
EmptySelectorFails ==
    (ret.op = "get_best_params" /\ scores = <<>>)
        => ret.exc = "ValueError" /\ ret.val = <<>>

EmptySelectorWitness ==
    /\ ret.op = "get_best_params" /\ scores = <<>> /\ params # <<>>
    /\ ret.exc = "ValueError"

(***************************************************************************)
(* C7: a search call with a strategy other than "random" or "grid" raises  *)
(* ValueError before any trial is evaluated and leaves the logs as they    *)
(* were.                                                                   *)
(***************************************************************************)
UnknownStrategyRejected ==
    [][(pc = "idle" /\ ret'.op = "search_for_params" /\ call'.algo \notin {"random", "grid"})
          => /\ ret'.exc = "ValueError"
             /\ pc' = "idle"
             /\ params' = params /\ scores' = scores /\ trials' = trials]_vars

UnknownStrategyWitness ==
    /\ SearchEnded /\ call.algo = "bogus" /\ ret.exc = "ValueError"
    /\ params # <<>> /\ params = call.base_params /\ scores = call.base_scores

(***************************************************************************)
(* C8: a random search call without n_iters raises KeyError before any     *)
(* configuration is drawn or evaluated and leaves the logs unchanged.      *)
(***************************************************************************)
MissingIterationCountRejected ==
    [][(/\ pc = "idle" /\ ret'.op = "search_for_params"
        /\ call'.algo = "random" /\ "n_iters" \notin DOMAIN call'.kwargs)
          => /\ ret'.exc = "KeyError"
             /\ pc' = "idle"
             /\ params' = params /\ scores' = scores /\ trials' = trials]_vars

MissingIterationCountWitness ==
    /\ SearchEnded /\ call.algo = "random" /\ call.kwargs = NoKwargs
    /\ ret.exc = "KeyError"
    /\ scores # <<>> /\ params = call.base_params /\ scores = call.base_scores

(***************************************************************************)
(* C9 as stated: after a search call that returns, the logs hold only the  *)
(* Trial Records of that call.                                             *)
(* Violated: the logs are created by __init__ and never reset.             *)
(***************************************************************************)
LogHoldsOnlyLatestCall ==
    (SearchReturned /\ LogsPaired /\ CallCount >= 1)
        => Len(params) = CallCount /\ Len(scores) = CallCount

(***************************************************************************)
(* C9 amended: the logs are created at construction and a search call      *)
(* appends to them: after a call that returns, each log is the log as it   *)
(* was on entry followed by one entry per configuration of the call.       *)
(***************************************************************************)
LogAccumulatesAcrossCalls ==
    SearchReturned
        => /\ Len(params) = Len(call.base_params) + CallCount
           /\ SubSeq(params, 1, Len(call.base_params)) = call.base_params
           /\ Len(scores) = Len(call.base_scores) + CallCount
           /\ SubSeq(scores, 1, Len(call.base_scores)) = call.base_scores

SecondCallWitness ==
    /\ SearchReturned /\ CallCount >= 1
    /\ call.base_scores # <<>>
    /\ Len(scores) = Len(call.base_scores) + CallCount

(***************************************************************************)
(* Vocabulary of the scaling property.                                     *)
(***************************************************************************)
ScaledColumns == {c \in 1..Len(columns) : columns[c] \in cols_to_scale}

RECURSIVE SumOver(_, _, _, _)
\* the sum of cell^power over column c of the given rows
SumOver(table, rows, c, power) ==
    IF rows = {} THEN 0
    ELSE LET r == CHOOSE x \in rows : TRUE
             x == table[r][c]
         IN (IF power = 2 THEN x * x ELSE x) + SumOver(table, rows \ {r}, c, power)

\* the statistics of the rows of the training slice, and of no other row
TrainingStatistics(table, train_index) ==
    [c \in ScaledColumns |->
        [n |-> Cardinality(Range(train_index)),
         s |-> SumOver(table, Range(train_index), c, 1),
         q |-> SumOver(table, Range(train_index), c, 2)]]

\* the tables that differ from the given one in test rows only
TestRowsPerturbed(table, test_index) ==
    {t \in [1..NumRows -> [1..Len(columns) -> Cells]] :
        \A r \in (1..NumRows) \ Range(test_index) : t[r] = table[r]}

\* a slice as it is when the given statistics were applied to it
ScaledWith(stats, index) ==
    [i \in 1..Len(index) |->
        [c \in 1..Len(columns) |->
            IF c \in ScaledColumns THEN scale_cell(X[index[i]][c], stats[c])
            ELSE Raw(X[index[i]][c])]]

(***************************************************************************)
(* C10: in every fold the scaler is new (unfitted, nothing transformed     *)
(* yet) when the fold starts; it is fitted from the rows of the training   *)
(* slice only, before either slice is transformed; the same statistics are *)
(* applied to the training and to the test slice; and changing the values  *)
(* of test rows never changes the fitted statistics.                       *)
(***************************************************************************)
ScalerFitsTrainingSliceOnly ==
    /\ epc = "scale" =>
          /\ fold.scaler = <<>>
          /\ fold.X_train = RawSlice(iloc(X, fold.train_index))
          /\ fold.X_test = RawSlice(iloc(X, fold.test_index))
    /\ epc \in {"train_scaled", "test_scaled"} =>
          /\ fold.scaler # <<>>
          /\ fold.scaler[1] = TrainingStatistics(X, fold.train_index)
          /\ \A t \in TestRowsPerturbed(X, fold.test_index) :
                fit(FitInput(t, fold.train_index, fold.test_index),
                    map_cols_to_scale_to_boolean(cols_to_scale)) = fold.scaler[1]
          /\ fold.X_train = ScaledWith(fold.scaler[1], fold.train_index)
          /\ fold.X_test = IF epc = "test_scaled"
                           THEN ScaledWith(fold.scaler[1], fold.test_index)
                           ELSE RawSlice(iloc(X, fold.test_index))

\* a later fold of a stratified split, both slices scaled, whose training
\* statistics differ from those of the whole table
ScaledFoldWitness ==
    /\ epc = "test_scaled" /\ stratify /\ fold_scores # <<>>
    /\ cols_to_scale = {"col_0", "col_1"}
    /\ Len(fold.train_index) >= 2
    /\ fold.scaler[1] # TrainingStatistics(X, Ascending(1..NumRows))
    /\ fold.scaler[1][1].n * fold.scaler[1][1].q # fold.scaler[1][1].s * fold.scaler[1][1].s

=============================================================================
